---- MODULE Spec2Model ----
(***************************************************************************)
(* A model of virtual_screen.py: the start-up script (argument handling,   *)
(* probe selection, frame-buffer address discovery), the VirtualScreen     *)
(* object, and the two timer callbacks draw_screen_mono and                *)
(* draw_screen_rgb565 that fetch a raw frame through the debug probe and   *)
(* paint it.                                                               *)
(*                                                                         *)
(* Text is modelled as sequences of byte values (rtt_read returns a list   *)
(* of byte values; chr() maps each to the character with that code point,  *)
(* so startswith/split/int are stated on the code points).  A 64-bit       *)
(* memory unit is modelled as four 16-bit limbs, least significant first,  *)
(* since TLC integers are 32 bits wide; masks and shifts act on the limbs. *)
(***************************************************************************)
EXTENDS Integers, Sequences, FiniteSets, TLC

VARIABLES
    pc,                  \* position of the process: main, rtt_wait, construct, loop, exited, aborted
    target_mcu,          \* get_params: mcu.strip().upper()
    display_type,        \* get_params: "mono" | "rgb565"
    display_size,        \* get_params: <<width, height>>
    address,             \* get_params: int(--address, 16)
    debugger,            \* "none" | "openocd" | "jlink"
    DISPLAY_VRAM_OFFSET, \* << >> while the global is unbound, <<a>> once assigned
    rtt_out,             \* last result of debugger.rtt_read(0, 200)
    rtt_reads,           \* rtt_read calls made so far, counted modulo RttReadsWrap
    exit_msg,            \* why the process ended before the event loop ("" while it has not)
    timer_active,        \* QTimer started and the event loop still delivering timeouts
    vram_pages,          \* self.vram_pages (mono only)
    pen,                 \* the painter's pen: [color, width]
    grid,                \* displayed pixels, device coordinates <<x, y>> -> colour
    vram,                \* the frame returned by the last get_frame_buffer call
    paints,              \* drawPoint calls of the last tick, in order: [x, y, color]
    probe_ops,           \* probe calls of the last tick, in order
    halted,              \* whether the target core is halted
    tick_result,         \* "none" | "ok" | "fetch_error" | "index_error"
    pixel_16             \* argument of the last set_pixel_color_16 call

vars == <<pc, target_mcu, display_type, display_size, address, debugger,
          DISPLAY_VRAM_OFFSET, rtt_out, rtt_reads, exit_msg, timer_active,
          vram_pages, pen, grid, vram, paints, probe_ops, halted, tick_result,
          pixel_16>>

----------------------------------------------------------------------------
(* Bounds of the model *)

\* the count of rtt_read calls wraps around here
RttReadsWrap == 2

\* a fetched frame is at most this many units shorter or longer than requested
MaxLenDelta == 1

----------------------------------------------------------------------------
(* Program constants *)

SCALE == 2
BLACK == <<0, 0, 0, 255>>
WHITE == <<255, 255, 255, 255>>
PIXEL_COLOR == WHITE
BG_COLOR == BLACK

\* QColor(r, g, b): alpha defaults to 255
QColor(r, g, b) == <<r, g, b, 255>>

----------------------------------------------------------------------------
(* Integer helpers: Python's &, <<, >> on non-negative integers *)

\* F(v), with v evaluated once
Let(v, F(_)) == CHOOSE y \in {F(x) : x \in {v}} : TRUE

\* a & b, bit by bit
RECURSIVE BitAndBits(_, _)
BitAndBits(a, b) ==
    IF a = 0 \/ b = 0 THEN 0
    ELSE (a % 2) * (b % 2) + 2 * BitAndBits(a \div 2, b \div 2)

\* a & b for 4-bit operands, tabulated
NibbleAnd == [a \in 0..15 |-> [b \in 0..15 |-> BitAndBits(a, b)]]

\* a & b, four bits at a time
RECURSIVE BitAnd(_, _)
BitAnd(a, b) ==
    IF a = 0 \/ b = 0 THEN 0
    ELSE NibbleAnd[a % 16][b % 16] + 16 * BitAnd(a \div 16, b \div 16)

RECURSIVE Pow2(_)
Pow2(n) == IF n = 0 THEN 1 ELSE 2 * Pow2(n - 1)

ShiftLeft(a, n) == a * Pow2(n)
ShiftRight(a, n) == a \div Pow2(n)

----------------------------------------------------------------------------
(* Text, as sequences of code points *)

\* "D-VRAM:"
DVramPrefix == <<68, 45, 86, 82, 65, 77, 58>>

\* str.split("\n"): the pieces between line feeds, empty pieces included
RECURSIVE SplitLines(_)
SplitLines(s) ==
    IF \A i \in 1..Len(s) : s[i] # 10 THEN <<s>>
    ELSE LET k == CHOOSE i \in 1..Len(s) : s[i] = 10 /\ \A j \in 1..(i - 1) : s[j] # 10
         IN <<SubSeq(s, 1, k - 1)>> \o SplitLines(SubSeq(s, k + 1, Len(s)))

\* str.startswith(prefix)
StartsWith(s, prefix) ==
    /\ Len(s) >= Len(prefix)
    /\ SubSeq(s, 1, Len(prefix)) = prefix

\* data[n:]
DropFirst(s, n) == SubSeq(s, n + 1, Len(s))

\* the characters int() strips: space, \t, \n, \v, \f, \r
IsSpace(c) == c \in {32, 9, 10, 11, 12, 13}

RECURSIVE Strip(_)
Strip(s) ==
    IF s = << >> THEN s
    ELSE IF IsSpace(s[1]) THEN Strip(Tail(s))
    ELSE IF IsSpace(s[Len(s)]) THEN Strip(SubSeq(s, 1, Len(s) - 1))
    ELSE s

IsHexDigit(c) == c \in (48..57) \cup (65..70) \cup (97..102)

HexDigit(c) == IF c \in 48..57 THEN c - 48 ELSE IF c \in 65..70 THEN c - 55 ELSE c - 87

RECURSIVE HexDigits(_, _)
HexDigits(s, acc) == IF s = << >> THEN acc ELSE HexDigits(Tail(s), acc * 16 + HexDigit(s[1]))

\* int(s, 16) for unsigned text without digit separators: <<v>>, or << >> for ValueError
IntBase16(s) ==
    LET t == Strip(s)
        body == IF Len(t) >= 2 /\ t[1] = 48 /\ t[2] \in {120, 88} THEN DropFirst(t, 2) ELSE t
    IN IF body # << >> /\ \A i \in 1..Len(body) : IsHexDigit(body[i])
       THEN <<HexDigits(body, 0)>>
       ELSE << >>

\* lines 221-231: the first line that starts with "D-VRAM:" decides
\* [found |-> whether such a line exists, value |-> int(data[8:], 16) of the first one]
ParseDVram(out) ==
    LET lines == SplitLines(out)
        hits == {i \in 1..Len(lines) : StartsWith(lines[i], DVramPrefix)}
    IN IF hits = {} THEN [found |-> FALSE, value |-> << >>]
       ELSE LET first == CHOOSE i \in hits : \A j \in hits : i <= j
            IN [found |-> TRUE, value |-> IntBase16(DropFirst(lines[first], 8))]

----------------------------------------------------------------------------
(* Inputs *)

\* (display, <<width, height>>) pairs given on the command line
Configs ==
    { <<"mono", <<4, 8>>>>, <<"mono", <<2, 16>>>>, <<"mono", <<2, 12>>>>,
      <<"mono", <<0, 8>>>>,
      <<"rgb565", <<4, 2>>>>, <<"rgb565", <<8, 1>>>>, <<"rgb565", <<6, 2>>>> }

Targets == {"OPENOCD", "STM32F103"}

\* values of --address (default "0")
Addresses == {0, 32}

\* what rtt_read(0, 200) can return
RttOutputs ==
    { << >>,
      \* "boot\n"
      <<98, 111, 111, 116, 10>>,
      \* "hi\nD-VRAM: 10\r\nD-VRAM: 0x2A\n"
      <<104, 105, 10, 68, 45, 86, 82, 65, 77, 58, 32, 49, 48, 13, 10,
        68, 45, 86, 82, 65, 77, 58, 32, 48, 120, 50, 65, 10>>,
      \* "D-VRAM:0x10\n"
      <<68, 45, 86, 82, 65, 77, 58, 48, 120, 49, 48, 10>> }

\* bytes of a mono frame
MonoUnits == {0, 133}

\* 64-bit units of an rgb565 frame, as four 16-bit limbs, least significant first
Rgb565Units ==
    { <<0, 0, 0, 0>>,
      \* 0x001F_07E0_F800_0000
      <<0, 63488, 2016, 31>>,
      \* 0x8410_0000_1234_FFFF
      <<65535, 4660, 0, 33808>> }

----------------------------------------------------------------------------
(* Start-up: the __main__ block *)

Init ==
    /\ pc = "main"
    /\ target_mcu \in Targets
    /\ \E c \in Configs : display_type = c[1] /\ display_size = c[2]
    /\ address \in Addresses
    /\ debugger = "none"
    /\ DISPLAY_VRAM_OFFSET = << >>
    /\ rtt_out = << >>
    /\ rtt_reads = 0
    /\ exit_msg = ""
    /\ timer_active = FALSE
    /\ vram_pages = 0
    /\ pen = [color |-> PIXEL_COLOR, width |-> SCALE]
    /\ grid = << >>
    /\ vram = << >>
    /\ paints = << >>
    /\ probe_ops = << >>
    /\ halted = FALSE
    /\ tick_result = "none"
    /\ pixel_16 = 0

screenVars == <<timer_active, vram_pages, pen, grid, vram, paints, probe_ops,
                halted, tick_result, pixel_16>>
paramVars == <<target_mcu, display_type, display_size, address>>

\* the OPENOCD branch without its address check
AddressMissing_Never == FALSE

\* line 188: the condition under which the OPENOCD branch refuses to start
AddressMissing == address = 0

\* lines 187-189: OPENOCD without an address
MainOpenOcdNoAddress ==
    /\ pc = "main"
    /\ target_mcu = "OPENOCD"
    /\ AddressMissing
    /\ pc' = "exited"
    /\ exit_msg' = "address"
    /\ UNCHANGED <<paramVars, debugger, DISPLAY_VRAM_OFFSET, rtt_out, rtt_reads, screenVars>>

\* lines 191-202: connect to the OpenOCD server and take the address from the command line
MainOpenOcdConnect ==
    /\ pc = "main"
    /\ target_mcu = "OPENOCD"
    /\ ~AddressMissing
    /\ debugger' = "openocd"
    /\ \E refused \in BOOLEAN :
         IF refused
         THEN /\ pc' = "exited"
              /\ exit_msg' = "connection_refused"
              /\ UNCHANGED DISPLAY_VRAM_OFFSET
         ELSE /\ pc' = "construct"
              /\ DISPLAY_VRAM_OFFSET' = <<address>>
              /\ UNCHANGED exit_msg
    /\ UNCHANGED <<paramVars, rtt_out, rtt_reads, screenVars>>

\* lines 204-217: open the J-Link, start RTT and connect to the MCU
MainJLinkOpen ==
    /\ pc = "main"
    /\ target_mcu # "OPENOCD"
    /\ debugger' = "jlink"
    /\ \E failed \in BOOLEAN :
         IF failed
         THEN pc' = "exited" /\ exit_msg' = "JLinkException"
         ELSE pc' = "rtt_wait" /\ UNCHANGED exit_msg
    /\ UNCHANGED <<paramVars, DISPLAY_VRAM_OFFSET, rtt_out, rtt_reads, screenVars>>

\* line 218: the condition under which the read loop goes round again
RttKeepWaiting(out) == Len(out) < 1

\* lines 218-231: one rtt_read; an empty result repeats the loop, anything else is parsed
RttRead ==
    /\ pc = "rtt_wait"
    /\ \E out \in RttOutputs :
         /\ rtt_out' = out
         /\ rtt_reads' = (rtt_reads + 1) % RttReadsWrap
         /\ IF RttKeepWaiting(out)
            THEN UNCHANGED <<pc, exit_msg, DISPLAY_VRAM_OFFSET>>
            ELSE LET r == ParseDVram(out)
                 IN IF ~r.found
                    THEN /\ pc' = "exited"
                         /\ exit_msg' = "NameError"
                         /\ UNCHANGED DISPLAY_VRAM_OFFSET
                    ELSE IF r.value = << >>
                    THEN /\ pc' = "exited"
                         /\ exit_msg' = "ValueError"
                         /\ UNCHANGED DISPLAY_VRAM_OFFSET
                    ELSE /\ pc' = "construct"
                         /\ DISPLAY_VRAM_OFFSET' = r.value
                         /\ UNCHANGED exit_msg
    /\ UNCHANGED <<paramVars, debugger, screenVars>>

----------------------------------------------------------------------------
(* The painting surface *)

\* device coordinates of a w x h display
Coords(w, h) == (0..(w - 1)) \X (0..(h - 1))

\* QPainter.drawPoint(cx, cy) with the current pen colour, in canvas coordinates
DrawPoint(cx, cy, color) == [x |-> cx, y |-> cy, color |-> color]

\* the device pixel whose SCALE x SCALE square a canvas point belongs to
DevicePixel(e) == <<e.x \div SCALE, e.y \div SCALE>>

\* lines 104-105: a horizontal line through the middle of the canvas, as thick as
\* the canvas is high, in bg_color; a device row is repainted when the line covers it
ClearScreen(g, w, h, bg_color) ==
    LET canvas_h == h * SCALE
        canvas_w == w * SCALE
        mid == canvas_h \div 2
        width == canvas_h
        covered(p) == /\ p[2] * SCALE >= mid - width \div 2
                      /\ p[2] * SCALE < mid + (width - width \div 2)
                      /\ p[1] * SCALE <= canvas_w
    IN [p \in Coords(w, h) |-> IF covered(p) THEN bg_color ELSE g[p]]

\* the surface after the drawPoint calls `events`, in order; points outside it are clipped
ApplyPaints(g, events) ==
    [p \in DOMAIN g |->
        LET hits == {i \in 1..Len(events) : DevicePixel(events[i]) = p}
        IN IF hits = {} THEN g[p]
           ELSE events[CHOOSE i \in hits : \A j \in hits : j <= i].color]

\* set_pixel_color_16 with the green field shifted as if it were 5 bits wide
SetPixelColor16_GreenShift(p16) ==
    LET b_val == BitAnd(p16, 31) * 8
        g_val == ShiftRight(BitAnd(p16, 2016), 6) * 4
        r_val == ShiftRight(BitAnd(p16, 63488), 5 + 6) * 8
    IN [color |-> QColor(r_val, g_val, b_val), width |-> SCALE]

\* lines 88-95: the pen set_pixel_color_16 selects
SetPixelColor16(p16) ==
    LET b_val == BitAnd(p16, 31) * 8
        g_val == ShiftRight(BitAnd(p16, 2016), 5) * 4
        r_val == ShiftRight(BitAnd(p16, 63488), 5 + 6) * 8
    IN [color |-> QColor(r_val, g_val, b_val), width |-> SCALE]

----------------------------------------------------------------------------
(* VirtualScreen.__init__ *)

\* lines 28-64 and 236-239: build the window, start the timer, enter the event loop.
\* QPixmap(w, h) is created with uninitialised contents.
ConstructScreen ==
    /\ pc = "construct"
    /\ pc' = "loop"
    /\ timer_active' = TRUE
    /\ vram_pages' = IF display_type = "mono" THEN display_size[2] \div 8 ELSE vram_pages
    /\ \E c \in {BLACK, WHITE} :
         grid' = [p \in Coords(display_size[1], display_size[2]) |-> c]
    /\ pen' = [color |-> PIXEL_COLOR, width |-> SCALE]
    /\ UNCHANGED <<paramVars, debugger, DISPLAY_VRAM_OFFSET, rtt_out, rtt_reads, exit_msg,
                   vram, paints, probe_ops, halted, tick_result, pixel_16>>

----------------------------------------------------------------------------
(* get_frame_buffer *)

\* a frame of n units over `units`, cut or zero-padded to n + d units
FramesOfLength(n, d, units, zero) ==
    { [i \in 1..(n + d) |-> IF i <= n THEN f[i] ELSE zero] : f \in [1..n -> units] }

\* what the probe's memory read can hand back for a request of `amount` units
ReadResults(amount, units, zero) ==
    UNION { FramesOfLength(amount, d, units, zero) :
              d \in { e \in (0 - MaxLenDelta)..MaxLenDelta : amount + e >= 0 } }

\* the address every memory read is given (lines 70 and 74)
ReadAddress == DISPLAY_VRAM_OFFSET[1]

\* lines 66-74: the probe calls made, in order, when the read returns (ok) or raises
GetFrameBufferOps(dbg, amount, unit_size, ok) ==
    LET read == <<"read", ReadAddress, amount, unit_size>>
    IN IF dbg = "openocd"
       THEN (IF ok THEN << <<"halt">>, read, <<"resume">> >> ELSE << <<"halt">>, read >>)
       ELSE <<read>>

\* whether the core is halted after the calls `ops`
HaltedAfter(was, ops) ==
    LET marks == {i \in 1..Len(ops) : ops[i][1] \in {"halt", "resume"}}
    IN IF marks = {} THEN was
       ELSE ops[CHOOSE i \in marks : \A j \in marks : j <= i][1] = "halt"

----------------------------------------------------------------------------
(* draw_screen_mono *)

\* line 122: the canvas row of bit bit_pos of a byte of page `page`
MonoRow(bit_pos, page, pages) == (bit_pos + (page * pages)) * SCALE

\* lines 119-122: the points drawn for one byte
MonoByteEvents(byte, column, page, pages) ==
    Let(SelectSeq(<<0, 1, 2, 3, 4, 5, 6, 7>>,
                  LAMBDA bit_pos : BitAnd(byte, ShiftLeft(1, bit_pos)) # 0),
        LAMBDA lit : [i \in 1..Len(lit) |->
                        DrawPoint(column * SCALE, MonoRow(lit[i], page, pages), PIXEL_COLOR)])

\* lines 116-122, from the k-th (page, column) iteration on, `events` being the points
\* drawn so far: the points drawn, and whether vram[...] raised IndexError
RECURSIVE MonoLoop(_, _, _, _, _)
MonoLoop(fb, w, pages, k, events) ==
    IF w <= 0 \/ k >= pages * w THEN [events |-> events, raised |-> FALSE]
    ELSE LET page == k \div w
             column == k % w
             idx == column + (page * w)
         IN IF idx >= Len(fb) THEN [events |-> events, raised |-> TRUE]
            ELSE MonoLoop(fb, w, pages, k + 1,
                          events \o MonoByteEvents(fb[idx + 1], column, page, pages))

\* lines 47, 50 and 239: the slots run inside emulator.exec_() with no handler around
\* them and no sys.excepthook installed; PyQt5 ends the process (qFatal) when an
\* exception leaves a slot
SlotRaised(kind) ==
    /\ tick_result' = kind
    /\ pc' = "aborted"
    /\ timer_active' = FALSE

SlotReturned ==
    /\ tick_result' = "ok"
    /\ UNCHANGED <<pc, timer_active>>

\* lines 108-124: one timer tick in mono mode
DrawScreenMono ==
    /\ pc = "loop"
    /\ timer_active
    /\ display_type = "mono"
    /\ LET w == display_size[1]
           h == display_size[2]
           amount == w * vram_pages
       IN \/ \* the memory read raises
             /\ probe_ops' = GetFrameBufferOps(debugger, amount, 8, FALSE)
             /\ halted' = HaltedAfter(halted, probe_ops')
             /\ SlotRaised("fetch_error")
             /\ UNCHANGED <<grid, vram, paints, pen>>
          \/ \E fb \in ReadResults(amount, MonoUnits, 0) :
             \E r \in {MonoLoop(fb, w, vram_pages, 0, << >>)} :
                  /\ probe_ops' = GetFrameBufferOps(debugger, amount, 8, TRUE)
                  /\ halted' = HaltedAfter(halted, probe_ops')
                  /\ vram' = fb
                  /\ paints' = r.events
                  /\ grid' = ApplyPaints(ClearScreen(grid, w, h, BG_COLOR), r.events)
                  /\ pen' = [color |-> PIXEL_COLOR, width |-> SCALE]
                  /\ IF r.raised THEN SlotRaised("index_error") ELSE SlotReturned
    /\ UNCHANGED <<paramVars, debugger, DISPLAY_VRAM_OFFSET, rtt_out, rtt_reads, exit_msg,
                   vram_pages, pixel_16>>

----------------------------------------------------------------------------
(* draw_screen_rgb565 *)

\* x & mask on 64-bit units
And64(u, mask) == [i \in 1..4 |-> BitAnd(u[i], mask[i])]

\* x >> n on 64-bit units, n a multiple of 16
Shr64(u, n) == [i \in 1..4 |-> IF i + n \div 16 <= 4 THEN u[i + n \div 16] ELSE 0]

\* the integer a unit below 2^16 stands for
Low16(u) == u[1]

\* the quartet unpacked most significant field first
QuartetPixels_Swapped(q) ==
    << Low16(Shr64(And64(q, <<0, 0, 0, 65535>>), 48)),
       Low16(Shr64(And64(q, <<0, 0, 65535, 0>>), 32)),
       Low16(Shr64(And64(q, <<0, 65535, 0, 0>>), 16)),
       Low16(And64(q, <<65535, 0, 0, 0>>)) >>

\* lines 141-144: the four pixels of a quartet
QuartetPixels(q) ==
    << Low16(And64(q, <<65535, 0, 0, 0>>)),
       Low16(Shr64(And64(q, <<0, 65535, 0, 0>>), 16)),
       Low16(Shr64(And64(q, <<0, 0, 65535, 0>>), 32)),
       Low16(Shr64(And64(q, <<0, 0, 0, 65535>>), 48)) >>

\* line 133: units per row
RowOffset(w) == w \div 4

\* lines 146-153: the points drawn for one quartet
QuartetEvents(q, p_x, p_y) ==
    Let(QuartetPixels(q),
        LAMBDA px : [i \in 1..4 |->
                       DrawPoint((p_x + (i - 1)) * SCALE, p_y * SCALE,
                                 SetPixelColor16(px[i]).color)])

\* lines 135-156, from row p_y and unit i_x of it on, `events` being the points drawn
\* and `args` the arguments given to set_pixel_color_16 so far: the points drawn, those
\* arguments, and whether vram[...] raised IndexError
RECURSIVE Rgb565Loop(_, _, _, _, _, _, _)
Rgb565Loop(fb, w, h, p_y, i_x, events, args) ==
    IF p_y >= h THEN [events |-> events, args |-> args, raised |-> FALSE]
    ELSE IF i_x * 4 >= w THEN Rgb565Loop(fb, w, h, p_y + 1, 0, events, args)
    ELSE LET idx == i_x + p_y * RowOffset(w)
         IN IF idx >= Len(fb) THEN [events |-> events, args |-> args, raised |-> TRUE]
            ELSE Rgb565Loop(fb, w, h, p_y, i_x + 1,
                            events \o QuartetEvents(fb[idx + 1], i_x * 4, p_y),
                            args \o QuartetPixels(fb[idx + 1]))

\* lines 126-158: one timer tick in rgb565 mode
DrawScreenRgb565 ==
    /\ pc = "loop"
    /\ timer_active
    /\ display_type = "rgb565"
    /\ LET w == display_size[1]
           h == display_size[2]
           amount == (w * h) \div 4
       IN \/ \* the memory read raises
             /\ probe_ops' = GetFrameBufferOps(debugger, amount, 16 * 4, FALSE)
             /\ halted' = HaltedAfter(halted, probe_ops')
             /\ SlotRaised("fetch_error")
             /\ UNCHANGED <<grid, vram, paints, pen, pixel_16>>
          \/ \E fb \in ReadResults(amount, Rgb565Units, <<0, 0, 0, 0>>) :
             \E r \in {Rgb565Loop(fb, w, h, 0, 0, << >>, << >>)} :
                  /\ probe_ops' = GetFrameBufferOps(debugger, amount, 16 * 4, TRUE)
                  /\ halted' = HaltedAfter(halted, probe_ops')
                  /\ vram' = fb
                  /\ paints' = r.events
                  /\ grid' = ApplyPaints(ClearScreen(grid, w, h, BG_COLOR), r.events)
                  /\ pixel_16' = IF r.args = << >> THEN pixel_16 ELSE r.args[Len(r.args)]
                  /\ pen' = IF r.args = << >> THEN [color |-> PIXEL_COLOR, width |-> SCALE]
                            ELSE SetPixelColor16(r.args[Len(r.args)])
                  /\ IF r.raised THEN SlotRaised("index_error") ELSE SlotReturned
    /\ UNCHANGED <<paramVars, debugger, DISPLAY_VRAM_OFFSET, rtt_out, rtt_reads, exit_msg, vram_pages>>

----------------------------------------------------------------------------
Next ==
    \/ MainOpenOcdNoAddress
    \/ MainOpenOcdConnect
    \/ MainJLinkOpen
    \/ RttRead
    \/ ConstructScreen
    \/ DrawScreenMono
    \/ DrawScreenRgb565

Spec == Init /\ [][Next]_vars

\* the script keeps running: while the read loop of lines 218-219 can make another
\* rtt_read, it does
FairSpec == Spec /\ WF_vars(RttRead)

----------------------------------------------------------------------------
(* set_pixel_color_16 on its own: every 16-bit argument, from several earlier pens *)

\* largest value of a 16-bit pixel field (mask 0xFFFF, line 141)
MaxPixel16 == 65535

\* 0xF800, 0x07E0, 0x001F: the pixel values decoded after the first one
FollowingPixels == <<63488, 2016, 31>>

\* a freshly built screen in rgb565 mode; vram holds the 16-bit pixel values
\* still to be handed to set_pixel_color_16, in order
InitPixel ==
    /\ pc = "loop"
    /\ target_mcu = "OPENOCD"
    /\ display_type = "rgb565"
    /\ display_size = <<4, 2>>
    /\ address = 32
    /\ debugger = "openocd"
    /\ DISPLAY_VRAM_OFFSET = <<32>>
    /\ rtt_out = << >>
    /\ rtt_reads = 0
    /\ exit_msg = ""
    /\ timer_active = TRUE
    /\ vram_pages = 0
    /\ grid = [p \in Coords(4, 2) |-> BG_COLOR]
    /\ \E v \in 0..MaxPixel16 : vram = <<v>> \o FollowingPixels
    /\ paints = << >>
    /\ probe_ops = << >>
    /\ halted = FALSE
    /\ tick_result = "none"
    /\ pixel_16 = 0
    /\ pen = [color |-> PIXEL_COLOR, width |-> SCALE]

\* lines 88-95: set_pixel_color_16 called with the next pixel value
SetPixelColor16Call ==
    /\ vram # << >>
    /\ pixel_16' = Head(vram)
    /\ pen' = SetPixelColor16(Head(vram))
    /\ vram' = Tail(vram)
    /\ UNCHANGED <<pc, paramVars, debugger, DISPLAY_VRAM_OFFSET, rtt_out, rtt_reads, exit_msg,
                   timer_active, vram_pages, grid, paints, probe_ops, halted,
                   tick_result>>

NextPixel == SetPixelColor16Call

SpecPixel == InitPixel /\ [][NextPixel]_vars

----------------------------------------------------------------------------
(* Vocabulary of the properties *)

W == display_size[1]
H == display_size[2]

\* the unit count each mode asks the probe for
ExpectedUnits == IF display_type = "mono" THEN W * (H \div 8) ELSE (W * H) \div 4

\* the event loop has been entered (and possibly left again)
LoopEntered == pc \in {"loop", "aborted"}

\* a tick ran to the end on a frame of exactly the requested length
GoodTick == tick_result = "ok" /\ Len(vram) = ExpectedUnits

\* the RGB565 decode as the format defines it, by division and remainder
Rgb565Color(v) ==
    <<((v \div 2048) % 32) * 8, ((v \div 32) % 64) * 4, (v % 32) * 8, 255>>

\* bit b of a byte
BitSet(byte, b) == (byte \div Pow2(b)) % 2 = 1

----------------------------------------------------------------------------
(* C1 *)

\* C1: after a mono tick on a frame of W*(H/8) bytes, with H a multiple of 8, the pixel
\* at (c, y) is foreground exactly when bit (y mod 8) of byte[c + (y div 8)*W] is set,
\* and background otherwise.
C1_MonoGeometry ==
    (GoodTick /\ display_type = "mono" /\ W > 0 /\ H > 0 /\ H % 8 = 0) =>
        \A p \in Coords(W, H) :
            grid[p] = (IF BitSet(vram[p[1] + ((p[2] \div 8) * W) + 1], p[2] % 8)
                       THEN PIXEL_COLOR ELSE BG_COLOR)

----------------------------------------------------------------------------
(* C2 *)

\* C2: once set_pixel_color_16 has been called with v, the pen colour is
\* R = ((v >> 11) & 31) * 8, G = ((v >> 5) & 63) * 4, B = (v & 31) * 8, every channel
\* within 0..255, whatever was decoded before; 0xF800, 0x07E0 and 0x001F give
\* (248,0,0), (0,252,0) and (0,0,248).
C2_Rgb565Decode ==
    Len(vram) <= Len(FollowingPixels) =>
        /\ pen.color = Rgb565Color(pixel_16)
        /\ \A i \in 1..4 : pen.color[i] \in 0..255
        /\ pixel_16 = 63488 => pen.color = <<248, 0, 0, 255>>
        /\ pixel_16 = 2016 => pen.color = <<0, 252, 0, 255>>
        /\ pixel_16 = 31 => pen.color = <<0, 0, 248, 255>>

\* 0x07E0 decoded right after 0xF800
C2_Witness ==
    /\ pixel_16 = 2016
    /\ vram = <<31>>
    /\ pen.color = <<0, 252, 0, 255>>

----------------------------------------------------------------------------
(* C3 *)

\* C3: after an rgb565 tick with W a multiple of 4 on a frame of W*H/4 units, the
\* k-th drawPoint (k = y*W + x, rows top to bottom, left to right within a row) is at
\* (x, y) with the RGB565 decode of 16-bit field (x mod 4) of unit[y*(W/4) + x div 4];
\* there are exactly W*H of them, and the grid shows those colours.
C3_PackedQuartet ==
    (GoodTick /\ display_type = "rgb565" /\ W % 4 = 0) =>
        /\ Len(paints) = W * H
        /\ \A k \in 1..Len(paints) :
             LET x == (k - 1) % W
                 y == (k - 1) \div W
                 field == vram[(y * (W \div 4)) + (x \div 4) + 1][(x % 4) + 1]
             IN /\ paints[k] = [x |-> x * SCALE, y |-> y * SCALE, color |-> Rgb565Color(field)]
                /\ grid[<<x, y>>] = Rgb565Color(field)

\* the unit 0x001F_07E0_F800_0000 drawn as the first quartet of the second row of 4 x 2
C3_Witness ==
    /\ GoodTick /\ display_type = "rgb565" /\ display_size = <<4, 2>>
    /\ vram[2] = <<0, 63488, 2016, 31>>
    /\ vram[1] = <<65535, 4660, 0, 33808>>
    /\ grid[<<1, 1>>] = <<248, 0, 0, 255>>
    /\ grid[<<3, 1>>] = <<0, 0, 248, 255>>

----------------------------------------------------------------------------
(* C4 *)

\* a tick whose fetch returned a frame of another length than requested
BadLengthTick ==
    /\ DrawScreenMono \/ DrawScreenRgb565
    /\ tick_result' # "fetch_error"
    /\ Len(vram') # ExpectedUnits

\* C4: a tick whose frame has the wrong length (shorter or longer) ends in an error and
\* leaves the displayed grid as it was: no clear, no pixel of the bad frame.
C4_FrameSizeMismatch ==
    [][BadLengthTick => (tick_result' # "ok" /\ grid' = grid)]_vars

----------------------------------------------------------------------------
(* C5 *)

\* C5: a tick whose fetch or decode fails is skipped and nothing more: the timer is
\* still running and the loop still delivers the following ticks.
C5_LoopSurvivesBadTick ==
    tick_result \in {"fetch_error", "index_error"} => (pc = "loop" /\ timer_active)

----------------------------------------------------------------------------
(* C6 *)

\* C6: on the J-Link path the wait for the frame-buffer address always ends: after
\* finitely many log-channel reads the script has left the read loop.
C6_DiscoveryBounded == [](pc = "rtt_wait" => <>(pc # "rtt_wait"))

----------------------------------------------------------------------------
(* C7 *)

\* C7: the timer is started and the loop entered only with W > 0, H > 0 and, in mono
\* mode, H a multiple of 8.
C7_GeometryRejected ==
    (timer_active \/ LoopEntered) =>
        (W > 0 /\ H > 0 /\ (display_type = "mono" => H % 8 = 0))

----------------------------------------------------------------------------
(* C8 *)

\* the value of hexadecimal text, digit by digit from the right
RECURSIVE HexValue(_)
HexValue(t) ==
    IF t = << >> THEN 0
    ELSE HexDigit(t[Len(t)]) + 16 * HexValue(SubSeq(t, 1, Len(t) - 1))

\* out holds a line "D-VRAM: <hex>" (0x optional, trailing \r allowed), no earlier line
\* starts with "D-VRAM:", and <hex> is the address a
ReportsAddress(out, a) ==
    \E i \in 1..Len(out), j \in 1..(Len(out) + 1) :
        /\ i = 1 \/ out[i - 1] = 10
        /\ j > i /\ (j = Len(out) + 1 \/ out[j] = 10)
        /\ \A k \in i..(j - 1) : out[k] # 10
        /\ SubSeq(out, i, i + 6) = DVramPrefix
        /\ \A m \in 1..(i - 1) :
             (m = 1 \/ out[m - 1] = 10) => SubSeq(out, m, m + 6) # DVramPrefix
        /\ \E s \in (i + 8)..(j - 1), e \in (i + 8)..(j - 1) :
             /\ \/ s = i + 8
                \/ s = i + 10 /\ out[i + 8] = 48 /\ out[i + 9] \in {120, 88}
             /\ \A k \in (e + 1)..(j - 1) : out[k] = 13
             /\ \A k \in s..e : IsHexDigit(out[k])
             /\ a = HexValue(SubSeq(out, s, e))

\* C8: with target OPENOCD and address 0 the process ends with the address message
\* before any probe object exists, and never starts the timer; whenever the screen is
\* built or the loop entered, the frame-buffer address is set (the non-zero --address
\* for OPENOCD, the address of the first D-VRAM line otherwise), and every memory read
\* is made at that address.
C8_AddressPrecondition ==
    /\ (target_mcu = "OPENOCD" /\ address = 0) =>
          /\ pc \in {"main", "exited"}
          /\ debugger = "none"
          /\ ~timer_active
          /\ pc = "exited" => exit_msg = "address"
    /\ (pc = "construct" \/ LoopEntered \/ timer_active) =>
          /\ Len(DISPLAY_VRAM_OFFSET) = 1
          /\ target_mcu = "OPENOCD" => (address # 0 /\ DISPLAY_VRAM_OFFSET = <<address>>)
          /\ target_mcu # "OPENOCD" => ReportsAddress(rtt_out, DISPLAY_VRAM_OFFSET[1])
    /\ \A i \in 1..Len(probe_ops) :
          probe_ops[i][1] = "read" => probe_ops[i][2] = DISPLAY_VRAM_OFFSET[1]

\* OPENOCD without --address has ended with the address message
C8_Witness ==
    /\ target_mcu = "OPENOCD" /\ address = 0
    /\ pc = "exited" /\ exit_msg = "address"
    /\ debugger = "none"

----------------------------------------------------------------------------
(* C9 *)

\* C9: with OpenOCD every fetch is halt, read, resume in that order and the core is
\* running again when the tick ends, whether or not the read succeeded; with J-Link
\* no halt or resume is issued.
C9_HaltReadResume ==
    /\ ~halted
    /\ (debugger = "openocd" /\ probe_ops # << >>) =>
          /\ Len(probe_ops) = 3
          /\ probe_ops[1] = <<"halt">>
          /\ probe_ops[2][1] = "read"
          /\ probe_ops[3] = <<"resume">>
    /\ debugger = "jlink" =>
          \A i \in 1..Len(probe_ops) : probe_ops[i][1] \notin {"halt", "resume"}

----------------------------------------------------------------------------
(* C10 *)

\* C10: on a frame of the requested length no frame index is out of range, every
\* point drawn lies inside the W x H grid, and no two points are drawn at the same
\* coordinate.
C10_PaintsInsideGrid ==
    (tick_result \in {"ok", "index_error"} /\ Len(vram) = ExpectedUnits) =>
        /\ tick_result = "ok"
        /\ \A i \in 1..Len(paints) : DevicePixel(paints[i]) \in Coords(W, H)
        /\ \A i, j \in 1..Len(paints) :
             DevicePixel(paints[i]) = DevicePixel(paints[j]) => i = j

====
